---- MODULE Spec2Model ----
(***************************************************************************)
(* Model of src/app/page.tsx (cuantopongo): the expense-splitting page.    *)
(*                                                                         *)
(* Money.  The page computes with IEEE doubles.  The model computes with   *)
(* exact integers: one unit is 1/60000 of the currency, so 0.01 is 600     *)
(* units, the tolerance 0.005 is 300 units and 0.0051 is 306 units.  Every *)
(* amount used below is a multiple of 6 units and no participant list is   *)
(* longer than 3, so every share monto / n is an integer and the model's   *)
(* arithmetic is the exact value of the page's arithmetic.                 *)
(*                                                                         *)
(* Identifiers.  uuid() strings are encoded as positive naturals; "" is    *)
(* NoId.  A record of the page keeps only the fields the handlers and the  *)
(* two computations read: Person {id, nombre}, Expense {monto, pagadorId,  *)
(* participantes}.  Expense.id is a fresh uuid, so deleteGasto(id) removes *)
(* exactly one position of the list and is modelled by that position.      *)
(* moneda, descripcion and fecha are display-only and not modelled.        *)
(*                                                                         *)
(* The specifications share the variables:                                 *)
(*   Spec         all handlers of the page (the form, import, storage)     *)
(*   SpecSeis     the six handlers addPersona, addGasto, removePersona,    *)
(*                deleteGasto, resetAll, loadEjemplo                       *)
(*   SpecForm     Spec without importar and the storage load               *)
(*   SpecCalculo  the two useMemo computations (balances, settlements)     *)
(*                run statement by statement on a drawn input              *)
(*   SpecCalculoFair  SpecCalculo where an iteration or the exit of the    *)
(*                settlement loop that can run does run                    *)
(***************************************************************************)
EXTENDS Integers, Sequences, FiniteSets, TLC

\* ------------------------------------------------------------------ bounds
\* addGasto is only taken while fewer than MaxGastos expenses are stored.
MaxGastos == 1
\* SpecCalculo draws expense lists of at most MaxEntrada expenses.
MaxEntrada == 2

\* ------------------------------------------------------------ program data
NoId == 0
TOL == 300

VARIABLES
  personas,       \* state.personas : sequence of [id, nombre]
  gastos,         \* state.gastos   : sequence of [monto, pagadorId, participantes]
  pagadorId,      \* form: selected payer, NoId when none
  participantes,  \* form: ticked participants, in the order they were ticked
  removed,        \* history: the id removePersona was last called with by the
                  \* latest step, NoId when the latest step was another handler
  pc,             \* position inside the two useMemo computations
  balances,       \* the balances memo: [keys, v], keys in insertion order
  debtors,        \* settlements: sorted debtor entries [id, amount]
  creditors,      \* settlements: sorted creditor entries [id, amount]
  i,              \* settlements: debtor cursor (0-based)
  j,              \* settlements: creditor cursor (0-based)
  moves           \* settlements: emitted transfers [fromId, toId, amount]

formVars == <<pagadorId, participantes>>
uiVars == <<personas, gastos, pagadorId, participantes, removed>>
calcVars == <<pc, balances, debtors, creditors, i, j, moves>>
vars == <<personas, gastos, pagadorId, participantes, removed,
          pc, balances, debtors, creditors, i, j, moves>>

\* --------------------------------------------------------- list utilities
Range(s) == {s[k] : k \in 1..Len(s)}

Includes(s, x) == \E k \in 1..Len(s) : s[k] = x

Filter(s, Test(_)) == SelectSeq(s, Test)

RemoveAt(s, k) == [n \in 1..(Len(s) - 1) |-> IF n < k THEN s[n] ELSE s[n + 1]]

\* Array.from(new Set(s)): first occurrences, in order
RECURSIVE Dedup(_)
Dedup(s) ==
  IF s = <<>> THEN <<>>
  ELSE LET init == Dedup(SubSeq(s, 1, Len(s) - 1))
           x == s[Len(s)]
       IN IF Includes(init, x) THEN init ELSE Append(init, x)

Ids(ps) == [k \in 1..Len(ps) |-> ps[k].id]

RECURSIVE SumSeq(_)
SumSeq(s) == IF s = <<>> THEN 0 ELSE s[1] + SumSeq(Tail(s))

Min(a, b) == IF a <= b THEN a ELSE b

\* ------------------------------------------------------------ balances memo
EmptyMap == [keys |-> <<>>, v |-> <<>>]

Get(b, k) == IF k \in DOMAIN b.v THEN b.v[k] ELSE 0

\* b[k] = x
Set(b, k, x) ==
  IF k \in DOMAIN b.v
  THEN [b EXCEPT !.v[k] = x]
  ELSE [keys |-> Append(b.keys, k),
        v |-> [y \in (DOMAIN b.v) \cup {k} |-> IF y = k THEN x ELSE b.v[y]]]

\* b[k] = (b[k] ?? 0) + d
Add(b, k, d) == Set(b, k, Get(b, k) + d)

RECURSIVE InitBalances(_)
InitBalances(ps) ==
  IF ps = <<>> THEN EmptyMap
  ELSE Set(InitBalances(SubSeq(ps, 1, Len(ps) - 1)), ps[Len(ps)].id, 0)

SkipMut(g) == g.monto <= 0
Skip(g) == g.monto <= 0 \/ Len(g.participantes) = 0

ShareMut(g) == g.monto \div Len(personas)
Share(g) == g.monto \div Len(g.participantes)

PayerCreditMut(g) == 0
PayerCredit(g) == g.monto

\* the inner loop over g.participantes, from position k on
RECURSIVE ApplyParts(_, _, _)
ApplyParts(b, g, k) ==
  IF k > Len(g.participantes) THEN b
  ELSE LET pid == g.participantes[k]
           b1 == IF pid = g.pagadorId
                 THEN Add(b, pid, g.monto - Share(g))
                 ELSE Add(b, pid, 0 - Share(g))
       IN ApplyParts(b1, g, k + 1)

ApplyGasto(b, g) ==
  IF Skip(g) THEN b
  ELSE LET b1 == ApplyParts(b, g, 1)
       IN IF ~Includes(g.participantes, g.pagadorId)
          THEN Add(b1, g.pagadorId, PayerCredit(g))
          ELSE b1

RECURSIVE ApplyGastos(_, _)
ApplyGastos(b, gs) ==
  IF gs = <<>> THEN b ELSE ApplyGastos(ApplyGasto(b, Head(gs)), Tail(gs))

BalancesOf(ps, gs) == ApplyGastos(InitBalances(ps), gs)

\* --------------------------------------------------------- settlements memo
IsDebtor(v) == v < 0 - TOL

IsCreditorMut(v) == v >= TOL
IsCreditor(v) == v > TOL

\* the loop over Object.keys(balances), from position k on
RECURSIVE DebtorsFrom(_, _)
DebtorsFrom(b, k) ==
  IF k > Len(b.keys) THEN <<>>
  ELSE LET pid == b.keys[k]
           v == b.v[pid]
       IN IF IsDebtor(v)
          THEN <<[id |-> pid, amount |-> 0 - v]>> \o DebtorsFrom(b, k + 1)
          ELSE DebtorsFrom(b, k + 1)

RECURSIVE CreditorsFrom(_, _)
CreditorsFrom(b, k) ==
  IF k > Len(b.keys) THEN <<>>
  ELSE LET pid == b.keys[k]
           v == b.v[pid]
       IN IF ~IsDebtor(v) /\ IsCreditor(v)
          THEN <<[id |-> pid, amount |-> v]>> \o CreditorsFrom(b, k + 1)
          ELSE CreditorsFrom(b, k + 1)

\* Array.prototype.sort((a, b) => b.amount - a.amount): stable, descending
RECURSIVE InsertDesc(_, _)
InsertDesc(s, e) ==
  IF s = <<>> THEN <<e>>
  ELSE IF Head(s).amount >= e.amount
       THEN <<Head(s)>> \o InsertDesc(Tail(s), e)
       ELSE <<e>> \o s

SortDescMut(s) == s
RECURSIVE SortDesc(_)
SortDesc(s) ==
  IF s = <<>> THEN <<>>
  ELSE InsertDesc(SortDesc(SubSeq(s, 1, Len(s) - 1)), s[Len(s)])

Pay(d, c) == Min(d.amount, c.amount)

AdvancesMut(e) == e.amount < 0
AdvancesAlways(e) == TRUE
Advances(e) == e.amount <= TOL

LoopCond == i < Len(debtors) /\ j < Len(creditors)

\* ---------------------------------------------------------------- handlers
\* Text typed into the name field.  trim() and toLowerCase() are given by
\* their values on these inputs and on the names loadEjemplo creates.
\* Spec, whose form multiplies the states, draws from the smaller set: there
\* the other names come from loadEjemplo and from imported documents.
NombreInputs == {"", " ana "}
NombreInputsSeis == {"", "Ana", " ana ", "Luis"}

Trim(s) == IF s = " ana " THEN "ana" ELSE s

ToLowerCase(s) ==
  CASE s = "Ana" -> "ana"
    [] s = "Luis" -> "luis"
    [] s = "Tu" -> "tu"
    [] OTHER -> s

\* Text typed into the description field and numbers typed into the amount
\* field (30, and 0 which addGasto rejects).
DescripcionInputs == {"", "Cena"}
MontoInputs == {0, 1800000}

RECURSIVE IdsOfGastos(_)
IdsOfGastos(gs) ==
  IF gs = <<>> THEN {}
  ELSE {Head(gs).pagadorId} \cup Range(Head(gs).participantes)
       \cup IdsOfGastos(Tail(gs))

UsedIds ==
  Range(Ids(personas)) \cup IdsOfGastos(gastos) \cup Range(participantes)
  \cup {pagadorId}

\* uuid(): an identifier nothing in the state holds (the smallest, so that
\* states that differ only in the names of identifiers coincide)
uuid ==
  CHOOSE n \in 1..(Cardinality(UsedIds) + 1) :
    n \notin UsedIds /\ \A m \in 1..(n - 1) : m \in UsedIds

addPersona(nuevoNombre) ==
  LET nombre == Trim(nuevoNombre)
      id == uuid
  IN /\ pc = "idle"
     /\ nombre # ""
     /\ ~\E k \in 1..Len(personas) :
           ToLowerCase(personas[k].nombre) = ToLowerCase(nombre)
     /\ personas' = Append(personas, [id |-> id, nombre |-> nombre])
     /\ pagadorId' = IF pagadorId = NoId THEN id ELSE pagadorId
     /\ participantes' = Dedup(Append(participantes, id))
     /\ removed' = NoId
     /\ UNCHANGED <<gastos, calcVars>>

WithoutParticipantMut(g, id) == g
WithoutParticipant(g, id) ==
  [g EXCEPT !.participantes = Filter(g.participantes, LAMBDA pid : pid # id)]

KeepsGastoMut(g, id) == TRUE
KeepsGasto(g, id) == g.pagadorId # id

CascadeGastos(gs, id) ==
  Filter([k \in 1..Len(gs) |-> WithoutParticipant(gs[k], id)],
         LAMBDA g : KeepsGasto(g, id))

PagadorAfterRemoveMut(id) == pagadorId
PagadorAfterRemove(id) == IF pagadorId = id THEN NoId ELSE pagadorId

removePersona(id) ==
  /\ pc = "idle"
  /\ id \in Range(Ids(personas))
  /\ personas' = Filter(personas, LAMBDA p : p.id # id)
  /\ gastos' = CascadeGastos(gastos, id)
  /\ participantes' = Filter(participantes, LAMBDA pid : pid # id)
  /\ pagadorId' = PagadorAfterRemove(id)
  /\ removed' = id
  /\ UNCHANGED calcVars

toggleParticipante(id) ==
  /\ pc = "idle"
  /\ id \in Range(Ids(personas))
  /\ participantes' = IF Includes(participantes, id)
                      THEN Filter(participantes, LAMBDA x : x # id)
                      ELSE Append(participantes, id)
  /\ removed' = NoId
  /\ UNCHANGED <<personas, gastos, pagadorId, calcVars>>

\* the payer Select: one item per registered participant
setPagadorId(v) ==
  /\ pc = "idle"
  /\ v \in Range(Ids(personas))
  /\ pagadorId' = v
  /\ removed' = NoId
  /\ UNCHANGED <<personas, gastos, participantes, calcVars>>

addGasto(descripcion, monto) ==
  /\ pc = "idle"
  /\ descripcion # ""
  /\ ~(monto <= 0)
  /\ pagadorId # NoId
  /\ Len(participantes) # 0
  /\ Len(gastos) < MaxGastos
  /\ gastos' = <<[monto |-> monto, pagadorId |-> pagadorId,
                  participantes |-> participantes]>> \o gastos
  /\ removed' = NoId
  /\ UNCHANGED <<personas, pagadorId, participantes, calcVars>>

deleteGasto(k) ==
  /\ pc = "idle"
  /\ k \in 1..Len(gastos)
  /\ gastos' = RemoveAt(gastos, k)
  /\ removed' = NoId
  /\ UNCHANGED <<personas, pagadorId, participantes, calcVars>>

resetAll ==
  /\ pc = "idle"
  /\ personas' = <<>>
  /\ gastos' = <<>>
  /\ pagadorId' = NoId
  /\ participantes' = <<>>
  /\ removed' = NoId
  /\ UNCHANGED calcVars

\* the three uuid()s of loadEjemplo replace every identifier of the state
EjemploPersonas ==
  <<[id |-> 1, nombre |-> "Ana"], [id |-> 2, nombre |-> "Luis"],
    [id |-> 3, nombre |-> "Tu"]>>

EjemploGastos ==
  <<[monto |-> 3252000, pagadorId |-> 1, participantes |-> <<1, 2, 3>>],
    [monto |-> 576000, pagadorId |-> 2, participantes |-> <<2, 3>>],
    [monto |-> 1080000, pagadorId |-> 3, participantes |-> <<1, 3>>]>>

loadEjemplo ==
  /\ pc = "idle"
  /\ personas' = EjemploPersonas
  /\ gastos' = EjemploGastos
  /\ pagadorId' = 1
  /\ participantes' = Ids(EjemploPersonas)
  /\ removed' = NoId
  /\ UNCHANGED calcVars

\* JSON documents a user can pick for import or that storage can hold.  The
\* page accepts any document whose personas and gastos are arrays: a list
\* that names its payer twice, a payer nobody registered (id 9), amounts
\* that are not positive, a missing participant list (read as []).
ImportFiles ==
  { [personas |-> <<[id |-> 1, nombre |-> "Ana"], [id |-> 2, nombre |-> "Luis"]>>,
     gastos |-> <<[monto |-> 600000, pagadorId |-> 1, participantes |-> <<1, 1>>]>>,
     version |-> 1],
    [personas |-> <<[id |-> 1, nombre |-> "Ana"]>>,
     gastos |-> <<[monto |-> 600000, pagadorId |-> 9, participantes |-> <<1>>]>>,
     version |-> 1],
    [personas |-> <<[id |-> 1, nombre |-> "Ana"], [id |-> 2, nombre |-> "Luis"]>>,
     gastos |-> <<[monto |-> 0, pagadorId |-> 1, participantes |-> <<1, 2>>],
                  [monto |-> 0 - 600, pagadorId |-> 2, participantes |-> <<1>>]>>,
     version |-> 1],
    [personas |-> <<[id |-> 1, nombre |-> "Ana"], [id |-> 2, nombre |-> "Luis"]>>,
     gastos |-> <<[monto |-> 1800000, pagadorId |-> 1, participantes |-> <<>>]>>,
     version |-> 2] }

importar(file) ==
  /\ pc = "idle"
  /\ personas' = file.personas
  /\ gastos' = file.gastos
  /\ pagadorId' = IF Len(file.personas) > 0 THEN file.personas[1].id ELSE NoId
  /\ participantes' = Ids(file.personas)
  /\ removed' = NoId
  /\ UNCHANGED calcVars

\* the mount effect: runs on the constructed state, before any handler
cargarLocalStorage(parsed) ==
  /\ pc = "idle"
  /\ personas = <<>> /\ gastos = <<>> /\ pagadorId = NoId /\ participantes = <<>>
  /\ parsed.version = 1
  /\ personas' = parsed.personas
  /\ gastos' = parsed.gastos
  /\ IF Len(parsed.personas) > 0
     THEN /\ pagadorId' = parsed.personas[1].id
          /\ participantes' = Ids(parsed.personas)
     ELSE UNCHANGED formVars
  /\ removed' = NoId
  /\ UNCHANGED calcVars

\* ------------------------------------------------- the two computations
\* Inputs of SpecCalculo: the participants of the example and expense lists
\* made of these expenses (amounts: 0.01, 0.0102, 10, 30 and the example's).
PersonasEntrada == EjemploPersonas

GastoCasos ==
  { [monto |-> 1800000, pagadorId |-> 3, participantes |-> <<1, 2>>],
    [monto |-> 1800000, pagadorId |-> 2, participantes |-> <<2>>],
    [monto |-> 600, pagadorId |-> 1, participantes |-> <<1, 2>>],
    [monto |-> 612, pagadorId |-> 3, participantes |-> <<3, 2>>],
    [monto |-> 600, pagadorId |-> 1, participantes |-> <<1, 2, 3>>],
    [monto |-> 3252000, pagadorId |-> 1, participantes |-> <<1, 2, 3>>],
    [monto |-> 576000, pagadorId |-> 2, participantes |-> <<2, 3>>],
    [monto |-> 1080000, pagadorId |-> 3, participantes |-> <<1, 3>>],
    [monto |-> 0, pagadorId |-> 1, participantes |-> <<1, 2>>],
    [monto |-> 0 - 1800000, pagadorId |-> 2, participantes |-> <<1>>],
    [monto |-> 1800000, pagadorId |-> 1, participantes |-> <<>>],
    [monto |-> 600000, pagadorId |-> 1, participantes |-> <<1, 1>>],
    [monto |-> 600000, pagadorId |-> 2, participantes |-> <<1, 1>>],
    [monto |-> 600000, pagadorId |-> 9, participantes |-> <<1>>] }

SeqsUpTo(S, n) == UNION {[1..m -> S] : m \in 0..n}

computeBalances ==
  /\ pc = "balances"
  /\ balances' = BalancesOf(personas, gastos)
  /\ pc' = "partition"
  /\ UNCHANGED <<uiVars, debtors, creditors, i, j, moves>>

partition ==
  /\ pc = "partition"
  /\ debtors' = SortDesc(DebtorsFrom(balances, 1))
  /\ creditors' = SortDesc(CreditorsFrom(balances, 1))
  /\ moves' = <<>>
  /\ i' = 0
  /\ j' = 0
  /\ pc' = "loop"
  /\ UNCHANGED <<uiVars, balances>>

loopStep ==
  /\ pc = "loop"
  /\ LoopCond
  /\ LET d == debtors[i + 1]
         c == creditors[j + 1]
         pay == Pay(d, c)
         d1 == [d EXCEPT !.amount = @ - pay]
         c1 == [c EXCEPT !.amount = @ - pay]
     IN /\ moves' = Append(moves, [fromId |-> d.id, toId |-> c.id, amount |-> pay])
        /\ debtors' = [debtors EXCEPT ![i + 1] = d1]
        /\ creditors' = [creditors EXCEPT ![j + 1] = c1]
        /\ i' = IF Advances(d1) THEN i + 1 ELSE i
        /\ j' = IF Advances(c1) THEN j + 1 ELSE j
  /\ UNCHANGED <<uiVars, pc, balances>>

loopExit ==
  /\ pc = "loop"
  /\ ~LoopCond
  /\ pc' = "done"
  /\ UNCHANGED <<uiVars, balances, debtors, creditors, i, j, moves>>

\* ---------------------------------------------------------- specifications
CalcIdle ==
  /\ balances = EmptyMap
  /\ debtors = <<>>
  /\ creditors = <<>>
  /\ i = 0
  /\ j = 0
  /\ moves = <<>>

Init ==
  /\ personas = <<>>
  /\ gastos = <<>>
  /\ pagadorId = NoId
  /\ participantes = <<>>
  /\ removed = NoId
  /\ pc = "idle"
  /\ CalcIdle

Next ==
  \/ \E n \in NombreInputs : addPersona(n)
  \/ \E id \in Range(Ids(personas)) : removePersona(id)
  \/ \E id \in Range(Ids(personas)) : toggleParticipante(id)
  \/ \E v \in Range(Ids(personas)) : setPagadorId(v)
  \/ \E d \in DescripcionInputs, m \in MontoInputs : addGasto(d, m)
  \/ \E k \in 1..Len(gastos) : deleteGasto(k)
  \/ resetAll
  \/ loadEjemplo
  \/ \E f \in ImportFiles : importar(f)
  \/ \E f \in ImportFiles : cargarLocalStorage(f)

Spec == Init /\ [][Next]_vars

NextSeis ==
  \/ \E n \in NombreInputsSeis : addPersona(n)
  \/ \E id \in Range(Ids(personas)) : removePersona(id)
  \/ \E d \in DescripcionInputs, m \in MontoInputs : addGasto(d, m)
  \/ \E k \in 1..Len(gastos) : deleteGasto(k)
  \/ resetAll
  \/ loadEjemplo

SpecSeis == Init /\ [][NextSeis]_vars

\* every handler of the page except importar and the storage load
NextForm ==
  \/ \E n \in NombreInputs : addPersona(n)
  \/ \E id \in Range(Ids(personas)) : removePersona(id)
  \/ \E id \in Range(Ids(personas)) : toggleParticipante(id)
  \/ \E v \in Range(Ids(personas)) : setPagadorId(v)
  \/ \E d \in DescripcionInputs, m \in MontoInputs : addGasto(d, m)
  \/ \E k \in 1..Len(gastos) : deleteGasto(k)
  \/ resetAll
  \/ loadEjemplo

SpecForm == Init /\ [][NextForm]_vars

InitCalculo ==
  /\ personas = PersonasEntrada
  /\ gastos \in SeqsUpTo(GastoCasos, MaxEntrada)
  /\ pagadorId = NoId
  /\ participantes = <<>>
  /\ removed = NoId
  /\ pc = "balances"
  /\ CalcIdle

NextCalculo ==
  \/ computeBalances
  \/ partition
  \/ loopStep
  \/ loopExit

SpecCalculo == InitCalculo /\ [][NextCalculo]_vars

\* The same computations with fairness on the settlement loop: the loop is
\* synchronous code, so an iteration or the exit that can run does run.
SpecCalculoFair == SpecCalculo /\ WF_vars(loopStep) /\ WF_vars(loopExit)

\* ------------------------------------------------------------- properties
PersonaIds == Range(Ids(personas))

Keys == Range(balances.keys)

Computed == pc \in {"partition", "loop", "done"}

Partitioned == pc \in {"loop", "done"}

RECURSIVE SumOver(_, _)
SumOver(S, f) ==
  IF S = {} THEN 0
  ELSE LET x == CHOOSE y \in S : TRUE IN f[x] + SumOver(S \ {x}, f)

NoRepeats(s) == \A m, n \in 1..Len(s) : s[m] = s[n] => m = n

\* the expense list of the data model: every payer and every listed id is
\* a registered participant, and no list names an id twice
WellFormed ==
  \A k \in 1..Len(gastos) :
    /\ gastos[k].pagadorId \in PersonaIds
    /\ Range(gastos[k].participantes) \subseteq PersonaIds
    /\ NoRepeats(gastos[k].participantes)

SumBalances == SumOver(PersonaIds, [id \in PersonaIds |-> Get(balances, id)])

MoveAmounts == [k \in 1..Len(moves) |-> moves[k].amount]

SumMoves == SumSeq(MoveAmounts)

SumPositive ==
  SumOver(Keys, [id \in Keys |-> IF balances.v[id] > 0 THEN balances.v[id] ELSE 0])

SumNegative ==
  SumOver(Keys, [id \in Keys |-> IF balances.v[id] < 0 THEN 0 - balances.v[id] ELSE 0])

Sent(id) ==
  SumSeq([k \in 1..Len(moves) |-> IF moves[k].fromId = id THEN moves[k].amount ELSE 0])

Received(id) ==
  SumSeq([k \in 1..Len(moves) |-> IF moves[k].toId = id THEN moves[k].amount ELSE 0])

\* a balance after every transfer is applied: the sender's balance rises by
\* the amount, the receiver's falls by it
Residual(id) == balances.v[id] + Sent(id) - Received(id)

DebtorIds == {debtors[k].id : k \in 1..Len(debtors)}

CreditorIds == {creditors[k].id : k \in 1..Len(creditors)}

\* C1 as stated: for any participant list and any expense list, the balances
\* of all participants sum to 0.
C1_ZeroSum_AnyList == Computed => SumBalances = 0

\* C1, amended: for any participant list and any expense list whose payers
\* and listed ids are registered participants and whose lists name no id
\* twice, the balances of all participants sum to 0.
C1_ZeroSum == Computed /\ WellFormed => SumBalances = 0

C1_Witness ==
  /\ pc = "done"
  /\ WellFormed
  /\ Len(gastos) >= 2
  /\ \A k \in 1..Len(gastos) : gastos[k].monto > 0 /\ gastos[k].participantes # <<>>
  /\ \E id \in PersonaIds : Get(balances, id) # 0

\* C2 as stated (for the well-formed expense lists of C1): once every emitted
\* transfer is applied to the balance map, every balance lies in
\* [-0.005, 0.005].
C2_SettlementComplete ==
  pc = "done" /\ WellFormed =>
    \A id \in Keys : 0 - TOL <= Residual(id) /\ Residual(id) <= TOL

\* C3 as stated (for the well-formed expense lists of C1): the transfer
\* amounts sum to the sum of the positive balances, which is the sum of the
\* absolute negative balances.
C3_Conservation_Exact ==
  pc = "done" /\ WellFormed => SumMoves = SumPositive /\ SumMoves = SumNegative

\* C3, amended: for well-formed expense lists the transfer amounts never sum
\* to more than the positive balances (equally the absolute negative
\* balances), and fall short of them by at most 0.005 per participant.
C3_Conservation ==
  pc = "done" /\ WellFormed =>
    /\ SumPositive = SumNegative
    /\ SumMoves <= SumPositive
    /\ SumPositive - SumMoves <= TOL * Cardinality(Keys)

C3_Witness ==
  /\ pc = "done"
  /\ WellFormed
  /\ moves # <<>>
  /\ SumMoves < SumPositive

\* what C4 says one expense g does to the balance of id
EqualSplitDelta(g, id) ==
  LET n == Len(g.participantes)
      listed == id \in Range(g.participantes)
  IN IF id = g.pagadorId
     THEN (IF listed THEN g.monto - (g.monto \div n) ELSE g.monto)
     ELSE (IF listed THEN 0 - (g.monto \div n) ELSE 0)

EffectOfGasto(k, id) ==
  Get(balances, id) - Get(BalancesOf(personas, RemoveAt(gastos, k)), id)

\* C4 as stated: every expense with amount > 0 and n >= 1 listed entries
\* debits each listed participant other than the payer amount/n, credits the
\* payer amount - amount/n if listed and amount if not, and changes no other
\* balance.
C4_EqualSplit_AnyList ==
  Computed =>
    \A k \in 1..Len(gastos) :
      gastos[k].monto > 0 /\ Len(gastos[k].participantes) >= 1 =>
        \A id \in PersonaIds \cup Keys \cup IdsOfGastos(gastos) :
          EffectOfGasto(k, id) = EqualSplitDelta(gastos[k], id)

\* C4, amended: the same, for every expense with amount > 0 and n >= 1
\* listed entries that are pairwise distinct.
C4_EqualSplit ==
  Computed =>
    \A k \in 1..Len(gastos) :
      /\ gastos[k].monto > 0
      /\ Len(gastos[k].participantes) >= 1
      /\ NoRepeats(gastos[k].participantes)
      => \A id \in PersonaIds \cup Keys \cup IdsOfGastos(gastos) :
           EffectOfGasto(k, id) = EqualSplitDelta(gastos[k], id)

\* amount 30, payer T, participants [A, B]: T +30, A -15, B -15
C4_Witness ==
  /\ Computed
  /\ gastos = <<[monto |-> 1800000, pagadorId |-> 3, participantes |-> <<1, 2>>]>>
  /\ Get(balances, 3) = 1800000
  /\ Get(balances, 1) = 0 - 900000
  /\ Get(balances, 2) = 0 - 900000

\* C5: an expense whose amount is <= 0 or whose participant list is empty,
\* at any position of any expense list, leaves the balance map (and so the
\* settlement list computed from it) as it is without it.
C5_SkippedIsNoOp ==
  Computed =>
    \A k \in 1..Len(gastos) :
      gastos[k].monto <= 0 \/ Len(gastos[k].participantes) = 0 =>
        BalancesOf(personas, RemoveAt(gastos, k)) = balances

C5_Witness ==
  /\ pc = "done"
  /\ moves # <<>>
  /\ \E k \in 1..Len(gastos) :
       gastos[k].monto > 0 /\ Len(gastos[k].participantes) = 0

\* C6: a participant is in the debtor list iff its balance is < -0.005 and
\* in the creditor list iff its balance is > 0.005; with a balance of exactly
\* 0.005 or -0.005 it is in neither list and in no transfer; with 0.0051 it
\* is a creditor.
C6_ToleranceBoundary ==
  Partitioned =>
    /\ \A id \in Keys :
         /\ id \in DebtorIds <=> balances.v[id] < 0 - 300
         /\ id \in CreditorIds <=> balances.v[id] > 300
         /\ balances.v[id] \in {300, 0 - 300} =>
              /\ id \notin DebtorIds \cup CreditorIds
              /\ \A k \in 1..Len(moves) : moves[k].fromId # id /\ moves[k].toId # id
         /\ balances.v[id] = 306 => id \in CreditorIds
    /\ DebtorIds \cup CreditorIds \subseteq Keys

C6_Witness ==
  /\ pc = "done"
  /\ moves # <<>>
  /\ \E a, b, c \in Keys :
       /\ balances.v[a] = 300
       /\ balances.v[b] = 306
       /\ balances.v[c] < 0 - 300
       /\ a \notin CreditorIds
       /\ b \in CreditorIds

\* C7: every emitted transfer has a strictly positive amount: whenever the
\* loop is about to run an iteration, the current debtor and the current
\* creditor both have more than 0.005 left.
C7_PositiveTransfers ==
  /\ \A k \in 1..Len(moves) : moves[k].amount > 0
  /\ pc = "loop" /\ LoopCond =>
       debtors[i + 1].amount > TOL /\ creditors[j + 1].amount > TOL

C7_Witness ==
  /\ pc = "done"
  /\ Len(moves) >= 2
  /\ \E k \in 1..Len(debtors) : debtors[k].amount = 0

\* what C8 says removePersona(id) leaves behind
CascadePost(id) ==
  LET kept == Filter(gastos, LAMBDA g : g.pagadorId # id)
  IN /\ id \notin Range(Ids(personas'))
     /\ \A k \in 1..Len(gastos') :
          /\ ~Includes(gastos'[k].participantes, id)
          /\ gastos'[k].pagadorId # id
     /\ Len(gastos') = Len(kept)
     /\ \A k \in 1..Len(kept) :
          /\ gastos'[k].monto = kept[k].monto
          /\ gastos'[k].pagadorId = kept[k].pagadorId
          /\ gastos'[k].participantes =
               Filter(kept[k].participantes, LAMBDA pid : pid # id)
     /\ personas' = Filter(personas, LAMBDA p : p.id # id)

\* C8: removePersona(id), in any state, leaves id out of the participant
\* list, out of every remaining expense's participant list and out of every
\* remaining expense's payer; it keeps every expense paid by someone else
\* with its amount, payer and other participants, and keeps every other
\* participant.
C8_DeletionCascade ==
  [][\A id \in PersonaIds : removePersona(id) => CascadePost(id)]_vars

C8_Witness ==
  /\ removed # NoId
  /\ personas # <<>>
  /\ gastos # <<>>
  /\ removed \notin PersonaIds

\* C9: in every state reached from the empty state by addPersona, addGasto,
\* removePersona, deleteGasto, resetAll and loadEjemplo, every stored expense
\* has amount > 0 and a non-empty participant list.
C9_ExpenseWellFormed ==
  \A k \in 1..Len(gastos) :
    gastos[k].monto > 0 /\ Len(gastos[k].participantes) > 0

C9_Witness ==
  /\ removed # NoId
  /\ \E k \in 1..Len(gastos) : Len(gastos[k].participantes) = 1

\* C10 as stated (for the well-formed expense lists of C1): when the loop
\* stops both cursors are at the end of their lists, so every debtor sends
\* and every creditor receives at least one transfer.
C10_FullCoverage ==
  pc = "done" /\ WellFormed =>
    /\ i = Len(debtors)
    /\ j = Len(creditors)
    /\ \A id \in DebtorIds : \E k \in 1..Len(moves) : moves[k].fromId = id
    /\ \A id \in CreditorIds : \E k \in 1..Len(moves) : moves[k].toId = id

Debt(id) == 0 - balances.v[id]

Credit(id) == balances.v[id]

PosIn(entries, id) == CHOOSE k \in 1..Len(entries) : entries[k].id = id

KeyPos(id) == CHOOSE k \in 1..Len(balances.keys) : balances.keys[k] = id

\* C11: the debtor list is in descending order of amount owed and the
\* creditor list in descending order of amount due; the first transfer goes
\* from a debtor with the largest debt to a creditor with the largest credit,
\* for the smaller of the two amounts; along the transfer list the sender's
\* position in the debtor list and the receiver's position in the creditor
\* list never decrease.
C11_GreedyOrder ==
  Partitioned =>
    /\ \A k, l \in 1..Len(debtors) :
         k < l => Debt(debtors[k].id) >= Debt(debtors[l].id)
    /\ \A k, l \in 1..Len(creditors) :
         k < l => Credit(creditors[k].id) >= Credit(creditors[l].id)
    /\ \A k \in 1..Len(moves) :
         moves[k].fromId \in DebtorIds /\ moves[k].toId \in CreditorIds
    /\ moves # <<>> =>
         LET from == moves[1].fromId
             to == moves[1].toId
         IN /\ \A id \in DebtorIds : Debt(from) >= Debt(id)
            /\ \A id \in CreditorIds : Credit(to) >= Credit(id)
            /\ moves[1].amount =
                 (IF Debt(from) <= Credit(to) THEN Debt(from) ELSE Credit(to))
    /\ \A k \in 1..(Len(moves) - 1) :
         /\ PosIn(debtors, moves[k].fromId) <= PosIn(debtors, moves[k + 1].fromId)
         /\ PosIn(creditors, moves[k].toId) <= PosIn(creditors, moves[k + 1].toId)

\* two debtors that the sort has swapped, both of them senders
C11_Witness ==
  /\ pc = "done"
  /\ Len(moves) >= 2
  /\ Len(debtors) >= 2
  /\ WellFormed
  /\ KeyPos(debtors[1].id) > KeyPos(debtors[2].id)
  /\ moves[1].fromId = debtors[1].id
  /\ moves[2].fromId = debtors[2].id

TransferBound ==
  Partitioned =>
    /\ Len(moves) <= i + j
    /\ Len(debtors) = 0 \/ Len(creditors) = 0 => Len(moves) = 0
    /\ Len(debtors) > 0 /\ Len(creditors) > 0 =>
         Len(moves) <= Len(debtors) + Len(creditors) - 1

\* C12: the settlement loop terminates for any balance map: every iteration
\* moves at least one of the two cursors forward, so at most
\* (debtors + creditors - 1) transfers are emitted when both lists are
\* non-empty and none when either list is empty.
C12_LoopTerminates ==
  /\ [][loopStep => i' + j' > i + j]_vars
  /\ []TransferBound
  /\ (pc = "loop") ~> (pc = "done")

\* a run of the loop that emitted exactly debtors + creditors - 1 transfers
C12_Witness ==
  /\ pc = "done"
  /\ Len(debtors) >= 2
  /\ Len(creditors) >= 1
  /\ Len(moves) = Len(debtors) + Len(creditors) - 1

\* C13: in every state reached from the empty state by the handlers of the
\* page other than import and storage load, every stored expense's payer and
\* every id in its participant list is a registered participant, so the keys
\* of the balance map are exactly the registered participant ids.
C13_ReferentialIntegrity ==
  /\ \A k \in 1..Len(gastos) :
       /\ gastos[k].pagadorId \in PersonaIds
       /\ Range(gastos[k].participantes) \subseteq PersonaIds
  /\ Range(BalancesOf(personas, gastos).keys) = PersonaIds

\* after a removePersona, an expense stored through the form with a payer
\* who is not among its participants
C13_Witness ==
  /\ removed # NoId
  /\ personas # <<>>
  /\ \E k \in 1..Len(gastos) :
       /\ gastos[k].participantes # <<>>
       /\ ~Includes(gastos[k].participantes, gastos[k].pagadorId)

\* C14: no transfer has the same participant as sender and receiver (the
\* debtor and creditor lists are disjoint), and no ordered pair (sender,
\* receiver) occurs in more than one transfer of the list.
C14_DistinctPairs ==
  /\ Partitioned => DebtorIds \cap CreditorIds = {}
  /\ \A k \in 1..Len(moves) : moves[k].fromId # moves[k].toId
  /\ \A k, l \in 1..Len(moves) :
       k # l => <<moves[k].fromId, moves[k].toId>> # <<moves[l].fromId, moves[l].toId>>

\* two transfers to the same receiver, from different senders
C14_Witness ==
  /\ pc = "done"
  /\ WellFormed
  /\ \E k, l \in 1..Len(moves) :
       /\ k # l
       /\ moves[k].toId = moves[l].toId
       /\ moves[k].fromId # moves[l].fromId

====
